---- MODULE Spec2Model ----
(***************************************************************************)
(* QuickWs (src/lib/index.ts): a reconnecting wrapper around one WebSocket. *)
(* The object's fields are the variables; every public method, every       *)
(* listener registered in _reopenSocket and the setTimeout callback is one  *)
(* action.  The WebSocket objects and the host timers are the environment:  *)
(* `sockets` and `timers` hold every object the program created.            *)
(***************************************************************************)
EXTENDS Integers, Sequences, FiniteSets, TLC

\* ------------------------------------------------------------------ bounds
MaxSockets == 3        \* WebSocket objects created in one behaviour
MaxTimers == 2         \* setTimeout calls in one behaviour
MaxMaxRetries == 2     \* constructor argument maxRetries ranges over 1..MaxMaxRetries
MaxCallbacks == 1      \* distinct callback functions the caller registers
RandRes == 4           \* Math.random() is drawn from {0/RandRes, ..., (RandRes-1)/RandRes}
MaxK == 25             \* retry counts fed to the delay computation on its own
MaxHandlers == 2       \* callback functions per event type, where registration is replaced
MaxRegSockets == 2     \* WebSocket objects created where registration is replaced
MaxStaleSockets == 4   \* WebSocket objects created where superseded sockets pile up

\* ------------------------------------------------------- program constants
RetryTimeoutBaseDefault == 2
RetryTimeoutMaxDefault == 30
RetryTimeoutIncrementDefault == 2
RetryTimeoutJitterDefault == 2

NULL == 0
Uris == {"endpoint-a"}
Payloads == {"ping", "terminate"}
CallbackIds == 1..MaxCallbacks

VARIABLES
  _socket,                  \* index into sockets, or NULL
  _retryTimer,              \* index into timers, or NULL
  _retryTimeoutBase,
  _retryTimeoutMax,
  _retryTimeoutIncrement,
  _retryTimeoutJitter,
  _currentRetry,
  _maxRetries,
  _onConnectionEstablished, \* callback id, or NULL
  _onConnectionBroken,
  _onMessageReceived,
  sockets,                  \* every WebSocket created: [uri, readyState]
  timers,                   \* every setTimeout issued: [uri, pending]
  last,                     \* what the last handler did (observation only)
  streak,                   \* closed events since the last opened event / connect call
  closeCalled,              \* close() was called and connect has not been called since
  brokenCount,              \* broken-callback invocations since the last connect call
  clean,                    \* the caller never called close, nor connect while a
                            \* handle was live or a timer pending
  phase,                    \* position in the end-to-end scenario of spec section 8
  restarted,                \* the last connect found the broken-callback fired, and only
                            \* closed / error events and timers followed it
  registered,               \* the callback the caller registered last, per event type
  superseded,               \* the event types whose callback replaced a different one
  connectSock,              \* the socket the last connect call created, or NULL
  closedLive,               \* close() was called on a connecting or open socket and
                            \* connect has not been called since
  target,                   \* the address the caller passed to connect last, or ""
  dk, du, draw, ddelay      \* the delay computation on its own (SpecDelay)

objVars == <<_socket, _retryTimer, _retryTimeoutBase, _retryTimeoutMax,
             _retryTimeoutIncrement, _retryTimeoutJitter, _currentRetry,
             _maxRetries, _onConnectionEstablished, _onConnectionBroken,
             _onMessageReceived>>
envVars == <<sockets, timers>>
histVars == <<last, streak, closeCalled, brokenCount, clean, phase, restarted,
              registered, superseded, connectSock, closedLive, target>>
delayVars == <<dk, du, draw, ddelay>>
vars == <<objVars, envVars, histVars, delayVars>>

Min(a, b) == IF a <= b THEN a ELSE b

\* The object, its environment and the effects of the running handler as one
\* value, so that a method is a function from worlds to worlds.
World ==
  [ socket |-> _socket, retryTimer |-> _retryTimer,
    retryTimeoutBase |-> _retryTimeoutBase, retryTimeoutMax |-> _retryTimeoutMax,
    retryTimeoutIncrement |-> _retryTimeoutIncrement,
    retryTimeoutJitter |-> _retryTimeoutJitter,
    currentRetry |-> _currentRetry, maxRetries |-> _maxRetries,
    onConnectionEstablished |-> _onConnectionEstablished,
    onConnectionBroken |-> _onConnectionBroken,
    onMessageReceived |-> _onMessageReceived,
    sockets |-> sockets, timers |-> timers,
    calls |-> <<>>,      \* application callbacks invoked by this handler
    ops |-> <<>>,        \* transport / timer operations issued by this handler
    logs |-> <<>> ]      \* _logDebug / _logError calls of this handler

\* ------------------------------------------------------------- environment
\* new WebSocket(wsUri): a fresh object in readyState CONNECTING.
NewWebSocket(w, wsUri) ==
  [w EXCEPT !.sockets = Append(@, [uri |-> wsUri, readyState |-> "CONNECTING"]),
            !.ops = Append(@, [op |-> "open", id |-> Len(w.sockets) + 1, uri |-> wsUri])]

\* socket.close(code, reason): starts the closing handshake of a socket that
\* is not yet closing or closed; the close event is delivered later.
SocketClose(w, s) ==
  [w EXCEPT !.sockets[s].readyState =
              IF @ \in {"CONNECTING", "OPEN"} THEN "CLOSING" ELSE @,
            !.ops = Append(@, [op |-> "close", id |-> s, uri |-> w.sockets[s].uri])]

\* clearTimeout(id)
ClearTimeout(w, t) ==
  [w EXCEPT !.timers[t].pending = FALSE,
            !.ops = Append(@, [op |-> "clearTimeout", id |-> t, uri |-> w.timers[t].uri])]

\* setTimeout(cb, ms): returns the id of a new pending timer.  The timer keeps
\* what its callback closes over (wsUri); the operation records ms and the
\* retry count k and unclamped value raw it was computed from.
SetTimeout(w, wsUri, k, raw, waitTimeSecs) ==
  [w EXCEPT !.timers = Append(@, [uri |-> wsUri, pending |-> TRUE]),
            !.ops = Append(@, [op |-> "setTimeout", id |-> Len(w.timers) + 1, uri |-> wsUri,
                               k |-> k, raw |-> raw, delay |-> waitTimeSecs * 1000])]

\* ----------------------------------------------------------------- methods
LogDebug(w, msg) == [w EXCEPT !.logs = Append(@, <<"debug", msg>>)]

LogError(w, msg) == [w EXCEPT !.logs = Append(@, <<"error", msg>>)]

_resetRetries(w) ==
  LET w1 == [w EXCEPT !.retryTimeoutBase = RetryTimeoutBaseDefault,
                      !.retryTimeoutMax = RetryTimeoutMaxDefault,
                      !.retryTimeoutIncrement = RetryTimeoutIncrementDefault,
                      !.retryTimeoutJitter = RetryTimeoutJitterDefault,
                      !.currentRetry = 0]
  IN IF w1.retryTimer # NULL
       THEN [ClearTimeout(w1, w1.retryTimer) EXCEPT !.retryTimer = NULL]
       ELSE w1

_reopenSocket(w, wsUri) ==
  LET w1 == [w EXCEPT !.currentRetry = @ + 1]
      w2 == LogDebug(w1, "attempt")
      w3 == NewWebSocket(w2, wsUri)
  IN [w3 EXCEPT !.socket = Len(w3.sockets)]

\* Math.floor(Math.random() * (max - min) + min) for integer min, max (the
\* Math.ceil / Math.floor of lines 186-187 leave integers alone); Math.random()
\* is u / RandRes.
_getRandomInt(min, max, u) == ((u * (max - min)) \div RandRes) + min

\* The sum of lines 168-170 without its first term, _retryTimeoutBase.
RawWaitTime_NoBase(w, u) ==
  (w.retryTimeoutIncrement * w.currentRetry)
    + _getRandomInt(-w.retryTimeoutJitter, w.retryTimeoutJitter, u)

\* The value of line 168-170 before Math.min is applied.
RawWaitTime(w, u) ==
  w.retryTimeoutBase + (w.retryTimeoutIncrement * w.currentRetry)
    + _getRandomInt(-w.retryTimeoutJitter, w.retryTimeoutJitter, u)

\* Math.max written for Math.min.
WaitTimeSecs_Max(w, u) ==
  IF RawWaitTime(w, u) >= w.retryTimeoutMax THEN RawWaitTime(w, u) ELSE w.retryTimeoutMax

\* Lines 168-171: the value clamped by Math.min.
WaitTimeSecs(w, u) == Min(RawWaitTime(w, u), w.retryTimeoutMax)

\* The give-up test written with > for >=.
_retryConnectionLogic_Gt(w, wsUri, u) ==
  IF w.currentRetry > w.maxRetries
    THEN LET w1 == LogError(w, "retries exceeded")
         IN IF w1.onConnectionBroken # NULL
              THEN [w1 EXCEPT !.calls = Append(@, [cb |-> "broken",
                                id |-> w1.onConnectionBroken, ws |-> NULL, msg |-> ""])]
              ELSE w1
    ELSE LET w1 == LogDebug(w, "next retry")
             w2 == SetTimeout(w1, wsUri, w1.currentRetry, RawWaitTime(w1, u),
                              WaitTimeSecs(w1, u))
         IN [w2 EXCEPT !.retryTimer = Len(w2.timers)]

\* callback is () => this._reopenSocket(wsUri); the timer keeps wsUri.
_retryConnectionLogic(w, wsUri, u) ==
  IF w.currentRetry >= w.maxRetries
    THEN LET w1 == LogError(w, "retries exceeded")
         IN IF w1.onConnectionBroken # NULL
              THEN [w1 EXCEPT !.calls = Append(@, [cb |-> "broken",
                                id |-> w1.onConnectionBroken, ws |-> NULL, msg |-> ""])]
              ELSE w1
    ELSE LET w1 == LogDebug(w, "next retry")
             w2 == SetTimeout(w1, wsUri, w1.currentRetry, RawWaitTime(w1, u),
                              WaitTimeSecs(w1, u))
         IN [w2 EXCEPT !.retryTimer = Len(w2.timers)]

connect(w, wsUri) == _reopenSocket(_resetRetries(w), wsUri)

\* _resetRetries called before the null test instead of inside it.
close_ResetFirst(w) ==
  LET w1 == _resetRetries(w)
  IN IF w1.socket # NULL
       THEN [SocketClose(w1, w1.socket) EXCEPT !.socket = NULL]
       ELSE w1

close(w) ==
  IF w.socket # NULL
    THEN LET w1 == _resetRetries(w)
             w2 == SocketClose(w1, w1.socket)
         IN [w2 EXCEPT !.socket = NULL]
    ELSE w

\* ------------------------------------------------------------- listeners
\* 'open' listener of a socket created by _reopenSocket
OpenListener(w) ==
  LET w1 == _resetRetries(w)
  IN IF w1.onConnectionEstablished # NULL
       THEN [w1 EXCEPT !.calls = Append(@, [cb |-> "established",
                         id |-> w1.onConnectionEstablished, ws |-> w1.socket, msg |-> ""])]
       ELSE w1

\* An error listener that also runs the retry decision.
ErrorListener_Retry(w) == _retryConnectionLogic(LogError(w, "error"), "endpoint-a", 0)

\* 'error' listener
ErrorListener(w) == LogError(w, "error")

\* 'close' listener; wsUri is the argument of the _reopenSocket call that
\* created the socket.
CloseListener(w, wsUri, u) ==
  _retryConnectionLogic(LogDebug(w, "connection closed"), wsUri, u)

\* 'message' listener
MessageListener(w, data) ==
  IF w.onMessageReceived # NULL
    THEN [w EXCEPT !.calls = Append(@, [cb |-> "message",
                     id |-> w.onMessageReceived, ws |-> w.socket, msg |-> data])]
    ELSE w

\* The timer callback without its callback() call.
TimerCallback_NoReopen(w, wsUri) == [w EXCEPT !.retryTimer = NULL]

\* setTimeout callback of _retryConnectionLogic
TimerCallback(w, wsUri) == _reopenSocket([w EXCEPT !.retryTimer = NULL], wsUri)

\* ------------------------------------------------------------------ state
Init ==
  /\ _socket = NULL
  /\ _retryTimer = NULL
  /\ _retryTimeoutBase = RetryTimeoutBaseDefault
  /\ _retryTimeoutMax = RetryTimeoutMaxDefault
  /\ _retryTimeoutIncrement = RetryTimeoutIncrementDefault
  /\ _retryTimeoutJitter = RetryTimeoutJitterDefault
  /\ _currentRetry = 0
  /\ _maxRetries \in 1..MaxMaxRetries
  /\ _onConnectionEstablished = NULL
  /\ _onConnectionBroken = NULL
  /\ _onMessageReceived = NULL
  /\ sockets = <<>>
  /\ timers = <<>>
  /\ last = [op |-> "new", sock |-> NULL, was |-> "", arg |-> "", calls |-> <<>>,
             ops |-> <<>>, logs |-> <<>>]
  /\ streak = 0
  /\ closeCalled = FALSE
  /\ brokenCount = 0
  /\ clean = TRUE
  /\ phase = "start"
  /\ restarted = FALSE
  /\ registered = [established |-> NULL, broken |-> NULL, message |-> NULL]
  /\ superseded = {}
  /\ connectSock = NULL
  /\ closedLive = FALSE
  /\ target = ""
  /\ dk = 0 /\ du = -1 /\ draw = 0 /\ ddelay = 0

\* The handler that ran left the object and its environment as in w.
Commit(w, op, sock, was, arg) ==
  /\ _socket' = w.socket
  /\ _retryTimer' = w.retryTimer
  /\ _retryTimeoutBase' = w.retryTimeoutBase
  /\ _retryTimeoutMax' = w.retryTimeoutMax
  /\ _retryTimeoutIncrement' = w.retryTimeoutIncrement
  /\ _retryTimeoutJitter' = w.retryTimeoutJitter
  /\ _currentRetry' = w.currentRetry
  /\ _maxRetries' = w.maxRetries
  /\ _onConnectionEstablished' = w.onConnectionEstablished
  /\ _onConnectionBroken' = w.onConnectionBroken
  /\ _onMessageReceived' = w.onMessageReceived
  /\ sockets' = w.sockets
  /\ timers' = w.timers
  /\ last' = [op |-> op, sock |-> sock, was |-> was, arg |-> arg, calls |-> w.calls,
              ops |-> w.ops, logs |-> w.logs]

NumCalls(w, name) == Cardinality({i \in DOMAIN w.calls : w.calls[i].cb = name})

NumOps(l, name) == Cardinality({i \in DOMAIN l.ops : l.ops[i].op = name})

Live(ss) == {s \in DOMAIN ss : ss[s].readyState # "CLOSED"}

Pending(tt) == {t \in DOMAIN tt : tt[t].pending}

\* No handle that can still deliver events and no timer is left.
Quiet == Live(sockets) = {} /\ Pending(timers) = {}

\* The event types with a replaced registration, after callback took the
\* place of old for type.
Replaced(sup, type, old, callback) ==
  IF old # NULL /\ old # callback THEN sup \cup {type} ELSE sup

\* ---------------------------------------------------------------- actions
Connect(wsUri) ==
  /\ Commit(connect(World, wsUri), "connect", NULL, "", wsUri)
  /\ connectSock' = _socket'
  /\ closedLive' = FALSE
  /\ target' = wsUri
  /\ streak' = 0
  /\ closeCalled' = FALSE
  /\ brokenCount' = 0
  /\ clean' = (clean /\ Quiet)
  /\ restarted' = (brokenCount >= 1)
  /\ phase' = CASE phase = "start" -> "failing"
                [] phase = "failing" /\ Quiet /\ brokenCount = 1 -> "reconnecting"
                [] OTHER -> "off"
  /\ UNCHANGED <<registered, superseded, delayVars>>

Close ==
  /\ Commit(close(World), "close", _socket, "", "")
  /\ closeCalled' = TRUE
  /\ clean' = FALSE
  /\ restarted' = FALSE
  /\ phase' = "off"
  /\ closedLive' = (closedLive \/ (_socket # NULL
                                     /\ sockets[_socket].readyState \in {"CONNECTING", "OPEN"}))
  /\ UNCHANGED <<streak, brokenCount, registered, superseded, connectSock, target,
                 delayVars>>

OnConnectionEstablished(callback) ==
  /\ Commit([World EXCEPT !.onConnectionEstablished = callback],
            "onConnectionEstablished", NULL, "", "")
  /\ phase' = IF phase = "start" THEN phase ELSE "off"
  /\ registered' = [registered EXCEPT !.established = callback]
  /\ superseded' = Replaced(superseded, "established", registered.established, callback)
  /\ UNCHANGED <<streak, closeCalled, brokenCount, clean, restarted, connectSock,
                 closedLive, target, delayVars>>

\* Registration that keeps a callback already registered.
OnConnectionBroken_KeepFirst(callback) ==
  /\ Commit([World EXCEPT !.onConnectionBroken = IF @ = NULL THEN callback ELSE @],
            "onConnectionBroken", NULL, "", "")
  /\ phase' = IF phase = "start" THEN phase ELSE "off"
  /\ registered' = [registered EXCEPT !.broken = callback]
  /\ superseded' = Replaced(superseded, "broken", registered.broken, callback)
  /\ UNCHANGED <<streak, closeCalled, brokenCount, clean, restarted, connectSock,
                 closedLive, target, delayVars>>

OnConnectionBroken(callback) ==
  /\ Commit([World EXCEPT !.onConnectionBroken = callback],
            "onConnectionBroken", NULL, "", "")
  /\ phase' = IF phase = "start" THEN phase ELSE "off"
  /\ registered' = [registered EXCEPT !.broken = callback]
  /\ superseded' = Replaced(superseded, "broken", registered.broken, callback)
  /\ UNCHANGED <<streak, closeCalled, brokenCount, clean, restarted, connectSock,
                 closedLive, target, delayVars>>

OnMessageReceived(callback) ==
  /\ Commit([World EXCEPT !.onMessageReceived = callback],
            "onMessageReceived", NULL, "", "")
  /\ phase' = IF phase = "start" THEN phase ELSE "off"
  /\ registered' = [registered EXCEPT !.message = callback]
  /\ superseded' = Replaced(superseded, "message", registered.message, callback)
  /\ UNCHANGED <<streak, closeCalled, brokenCount, clean, restarted, connectSock,
                 closedLive, target, delayVars>>

\* The transport delivers 'open' to a connecting socket.
SocketOpened(s) ==
  /\ s \in DOMAIN sockets
  /\ sockets[s].readyState = "CONNECTING"
  /\ Commit(OpenListener([World EXCEPT !.sockets[s].readyState = "OPEN"]),
            "opened", s, sockets[s].readyState, "")
  /\ streak' = 0
  /\ restarted' = FALSE
  /\ phase' = IF phase = "reconnecting" THEN "established" ELSE "off"
  /\ UNCHANGED <<closeCalled, brokenCount, clean, registered, superseded, connectSock,
                 closedLive, target, delayVars>>

\* The transport delivers 'error' to a socket that has not closed yet.
SocketError(s) ==
  /\ s \in DOMAIN sockets
  /\ sockets[s].readyState # "CLOSED"
  /\ Commit(ErrorListener(World), "error", s, sockets[s].readyState, "")
  /\ UNCHANGED <<streak, closeCalled, brokenCount, clean, phase, restarted,
                 registered, superseded, connectSock, closedLive, target, delayVars>>

\* The transport delivers 'close' to a socket, once, whatever ended it.
SocketClosed(s, u) ==
  /\ s \in DOMAIN sockets
  /\ sockets[s].readyState # "CLOSED"
  /\ LET w == CloseListener([World EXCEPT !.sockets[s].readyState = "CLOSED"],
                            sockets[s].uri, u)
     IN /\ Len(w.timers) <= MaxTimers
        /\ Commit(w, "closed", s, sockets[s].readyState, "")
        /\ brokenCount' = brokenCount + NumCalls(w, "broken")
  /\ streak' = streak + 1
  /\ phase' = IF phase = "failing" THEN phase ELSE "off"
  /\ UNCHANGED <<closeCalled, clean, restarted, registered, superseded, connectSock,
                 closedLive, target, delayVars>>

\* The transport delivers 'message' to an open socket.
SocketMessage(s, data) ==
  /\ s \in DOMAIN sockets
  /\ sockets[s].readyState = "OPEN"
  /\ Commit(MessageListener(World, data), "message", s, sockets[s].readyState, data)
  /\ UNCHANGED <<streak, closeCalled, brokenCount, clean, phase, restarted,
                 registered, superseded, connectSock, closedLive, target, delayVars>>

\* A pending timer of _retryConnectionLogic expires.
TimerFires(t) ==
  /\ t \in DOMAIN timers
  /\ timers[t].pending
  /\ Commit(TimerCallback([World EXCEPT !.timers[t].pending = FALSE], timers[t].uri),
            "timer", t, "", "")
  /\ phase' = IF phase = "failing" THEN phase ELSE "off"
  /\ UNCHANGED <<streak, closeCalled, brokenCount, clean, restarted,
                 registered, superseded, connectSock, closedLive, target, delayVars>>

Next ==
  \/ \E wsUri \in Uris : Len(sockets) < MaxSockets /\ Connect(wsUri)
  \/ Close
  \/ \E callback \in CallbackIds : OnConnectionEstablished(callback)
  \/ \E callback \in CallbackIds : OnConnectionBroken(callback)
  \/ \E callback \in CallbackIds : OnMessageReceived(callback)
  \/ \E s \in 1..MaxSockets : SocketOpened(s)
  \/ \E s \in 1..MaxSockets : SocketError(s)
  \/ \E s \in 1..MaxSockets, u \in 0..(RandRes - 1) : SocketClosed(s, u)
  \/ \E s \in 1..MaxSockets, data \in Payloads : SocketMessage(s, data)
  \/ \E t \in 1..MaxTimers : Len(sockets) < MaxSockets /\ TimerFires(t)

Spec == Init /\ [][Next]_vars

\* ---------------------------------------- the delay computation on its own
\* _retryConnectionLogic run with retry count k and random draw u on an object
\* that has retries left; the timer it sets is recorded.
DelayStep ==
  \E k \in 0..MaxK, u \in 0..(RandRes - 1) :
    LET w == _retryConnectionLogic(
               [World EXCEPT !.currentRetry = k, !.maxRetries = MaxK + 1],
               "endpoint-a", u)
    IN /\ Len(w.ops) = 1
       /\ w.ops[1].op = "setTimeout"
       /\ dk' = w.ops[1].k
       /\ du' = u
       /\ draw' = w.ops[1].raw
       /\ ddelay' = w.ops[1].delay
       /\ UNCHANGED <<objVars, envVars, histVars>>

NextDelay == DelayStep

SpecDelay == Init /\ [][NextDelay]_vars

\* ------------------------------------- one connect, every attempt failing
\* The caller registers its callbacks, calls connect once and makes no other
\* call; no attempt ever opens.
FailingClosed == \E s \in 1..MaxSockets, u \in 0..(RandRes - 1) : SocketClosed(s, u)

FailingTimer == \E t \in 1..MaxTimers : Len(sockets) < MaxSockets /\ TimerFires(t)

NextFailing ==
  \/ \E callback \in CallbackIds : phase = "start" /\ OnConnectionEstablished(callback)
  \/ \E callback \in CallbackIds : phase = "start" /\ OnConnectionBroken(callback)
  \/ \E callback \in CallbackIds : phase = "start" /\ OnMessageReceived(callback)
  \/ \E wsUri \in Uris : phase = "start" /\ Connect(wsUri)
  \/ \E s \in 1..MaxSockets : SocketError(s)
  \/ FailingClosed
  \/ FailingTimer

\* The transport ends every attempt with a close event and the host runs
\* every timer it was given.
SpecFailing ==
  Init /\ [][NextFailing]_vars /\ WF_vars(FailingClosed) /\ WF_vars(FailingTimer)

\* ------------------------------------------- fail, give up, connect again
\* The scenario of spec section 8: as NextFailing, and once the retries are
\* exhausted and the broken-callback has fired the caller calls connect
\* again and that attempt opens.
NextScenario ==
  \/ NextFailing
  \/ \E wsUri \in Uris : /\ phase = "failing" /\ Quiet /\ brokenCount = 1
                          /\ Len(sockets) < MaxSockets
                          /\ Connect(wsUri)
  \/ \E s \in 1..MaxSockets : phase = "reconnecting" /\ SocketOpened(s)

SpecScenario == Init /\ [][NextScenario]_vars

\* ------------------------------------------------ replacing registrations
\* The caller registers and replaces callbacks at any time, and calls connect
\* when no socket is live and no timer pending.
NextRegister ==
  \/ \E callback \in 1..MaxHandlers : OnConnectionEstablished(callback)
  \/ \E callback \in 1..MaxHandlers : OnConnectionBroken(callback)
  \/ \E callback \in 1..MaxHandlers : OnMessageReceived(callback)
  \/ \E wsUri \in Uris : Quiet /\ Len(sockets) < MaxRegSockets /\ Connect(wsUri)
  \/ \E s \in 1..MaxRegSockets : SocketOpened(s)
  \/ \E s \in 1..MaxRegSockets : SocketClosed(s, 0)
  \/ \E s \in 1..MaxRegSockets : SocketMessage(s, "ping")
  \/ \E t \in 1..MaxTimers : Len(sockets) < MaxRegSockets /\ TimerFires(t)

SpecRegister == Init /\ [][NextRegister]_vars

\* --------------------------------------------------- changing the address
\* The caller connects to one of two addresses, and closes, at any time.
Targets == {"endpoint-a", "endpoint-b"}

NextTarget ==
  \/ \E wsUri \in Targets : Len(sockets) < MaxSockets /\ Connect(wsUri)
  \/ Close
  \/ \E s \in 1..MaxSockets : SocketOpened(s)
  \/ \E s \in 1..MaxSockets : SocketClosed(s, 0)
  \/ \E t \in 1..MaxTimers : Len(sockets) < MaxSockets /\ TimerFires(t)

SpecTarget == Init /\ [][NextTarget]_vars

\* ------------------------------------------------------ superseded sockets
\* The caller calls connect and close at any time and registers nothing;
\* one more socket can be created than in Spec.
NextStale ==
  \/ \E wsUri \in Uris : Len(sockets) < MaxStaleSockets /\ Connect(wsUri)
  \/ Close
  \/ \E s \in 1..MaxStaleSockets : SocketOpened(s)
  \/ \E s \in 1..MaxStaleSockets : SocketClosed(s, 0)
  \/ \E t \in 1..MaxTimers : Len(sockets) < MaxStaleSockets /\ TimerFires(t)

SpecStale == Init /\ [][NextStale]_vars

\* ===================================================================== claims
BrokenFired(l) == \E i \in DOMAIN l.calls : l.calls[i].cb = "broken"

Scheduled(l) == {l.ops[i] : i \in {j \in DOMAIN l.ops : l.ops[j].op = "setTimeout"}}

\* C1: the broken-callback fires on a closed event if and only if that event
\* makes the number of consecutive closed events (no opened event and no
\* connect call in between) equal to maxRetries, also when the streak starts
\* with the drop of an opened connection.  Stated for a caller that never
\* calls close and calls connect only when no handle is live and no timer is
\* pending, and with a broken-callback registered.
C1_BrokenIffStreakIsMaxRetries ==
  (clean /\ last.op = "closed" /\ _onConnectionBroken # NULL)
    => (BrokenFired(last) <=> streak = _maxRetries)

\* C2: after close() no retry timer is scheduled and no transport handle is
\* opened until the caller calls connect again, also when the closed event of
\* the handle that close() shut down arrives after close() returned.
C2_NoReconnectAfterClose ==
  (closeCalled /\ last.op # "close")
    => (NumOps(last, "open") = 0 /\ NumOps(last, "setTimeout") = 0)

\* The delays the first failure after a fresh connect call can be given, as
\* the code computes them (maxRetries >= 2, so that a retry is scheduled).
FirstRetryDelays ==
  LET w == connect(World, "endpoint-a")
  IN {WaitTimeSecs(w, u) * 1000 : u \in 0..(RandRes - 1)}

\* C3: an opened event leaves the retry counter at 0, and the delay scheduled
\* when that opened connection drops is one of the delays the first failure
\* after a fresh connect call is given.
C3_ResetOnSuccess ==
  /\ last.op = "opened" => _currentRetry = 0
  /\ (clean /\ last.op = "closed" /\ last.was = "OPEN" /\ _maxRetries >= 2)
       => \A t \in Scheduled(last) : t.delay \in FirstRetryDelays

\* C4: once the broken-callback has fired, and until connect is called, it is
\* not invoked again, no retry timer is pending and no transport handle is
\* opened.
C4_InertAfterBroken ==
  /\ brokenCount <= 1
  /\ brokenCount >= 1 => /\ Pending(timers) = {}
                         /\ last.op # "connect" => NumOps(last, "open") = 0

\* C5: connect called after the broken-callback fired opens exactly one
\* transport handle, leaves no timer pending and the attempt counter at its
\* value after a fresh connect, and the broken-callback then fires again
\* exactly on the closed event that makes the new streak maxRetries long.
C5_ConnectRestartsFromBroken ==
  /\ (restarted /\ last.op = "connect")
       => /\ NumOps(last, "open") = 1
          /\ Pending(timers) = {}
          /\ _currentRetry = 1
          /\ _socket = Len(sockets)
          /\ sockets[_socket].readyState = "CONNECTING"
  /\ (restarted /\ last.op = "closed" /\ _onConnectionBroken # NULL)
       => (BrokenFired(last) <=> streak = _maxRetries)

\* C6: close() called while no handle is held (never connected, or close
\* already called) changes no field, touches no socket and no timer, invokes
\* no callback and logs nothing; and close() always leaves no handle held, so
\* that a second close() is such a call.
C6_CloseWhenIdleIsNoOp ==
  [][(last'.op = "close")
       => /\ _socket' = NULL
          /\ _socket = NULL
               => /\ UNCHANGED <<objVars, envVars>>
                  /\ last'.calls = <<>>
                  /\ last'.ops = <<>>
                  /\ last'.logs = <<>>]_vars

C6_Witness ==
  /\ last.op = "close"
  /\ last.sock = NULL
  /\ Len(sockets) >= 1
  /\ closeCalled

\* C7: right after close() returns, from whatever state it was called, no
\* retry timer is pending, no transport handle is held and none is live
\* without having been asked to close, and the retry counter is 0.
C7_CloseLeavesIdle ==
  last.op = "close"
    => /\ Pending(timers) = {}
       /\ _retryTimer = NULL
       /\ _socket = NULL
       /\ last.sock # NULL => sockets[last.sock].readyState \in {"CLOSING", "CLOSED"}
       /\ _currentRetry = 0

\* C8: a retry scheduled with retry count k gets, for every random draw, an
\* unclamped delay in [2 + 2k - 2, 2 + 2k + 2) seconds, and the timer is set
\* to min(that, 30) seconds, never more than 30; k = 1 gives 2..5 seconds and
\* k = 20 gives 30 seconds.
C8_DelayBounds ==
  du # -1
    => /\ 2 + 2 * dk - 2 <= draw
       /\ draw < 2 + 2 * dk + 2
       /\ ddelay = Min(draw, 30) * 1000
       /\ ddelay <= 30 * 1000
       /\ dk = 1 => ddelay \in {2000, 3000, 4000, 5000}
       /\ dk = 20 => ddelay = 30000

C8_Witness == du # -1 /\ dk = 20 /\ ddelay = 30000

\* C9: after construction and one connect call, with every attempt ending in
\* a closed event and no other caller call, never more than maxRetries
\* transport handles are opened; when nothing is left to happen exactly
\* maxRetries were opened and the broken-callback was invoked once.  A connect
\* that follows and whose attempt opens invokes the established-callback once,
\* with the new handle, and leaves the retry counter at 0.
C9_EndToEnd ==
  /\ phase = "failing"
       => /\ Len(sockets) <= _maxRetries
          /\ brokenCount <= 1
          /\ Quiet => /\ Len(sockets) = _maxRetries
                      /\ _onConnectionBroken # NULL => brokenCount = 1
  /\ phase = "reconnecting" => Len(sockets) = _maxRetries + 1
  /\ phase = "established"
       => /\ _currentRetry = 0
          /\ Len(sockets) = _maxRetries + 1
          /\ last.op = "opened"
               => /\ NumCalls(last, "established")
                       = IF _onConnectionEstablished # NULL THEN 1 ELSE 0
                  /\ \A i \in DOMAIN last.calls : last.calls[i].ws = Len(sockets)

C9_Witness ==
  /\ phase = "established"
  /\ last.op = "opened"
  /\ _maxRetries = 2
  /\ Len(sockets) = 3
  /\ NumCalls(last, "established") = 1
  /\ _currentRetry = 0

\* C10: a message event invokes the registered message-callback exactly once,
\* with the payload of the event and with the handle that emitted it.
C10_MessageForwarded ==
  (last.op = "message" /\ _onMessageReceived # NULL)
    => last.calls = << [cb |-> "message", id |-> _onMessageReceived,
                        ws |-> last.sock, msg |-> last.arg] >>

\* C11: after one connect call and no other caller call, with every attempt
\* ending in a closed event and none opening, and timers and transport events
\* delivered fairly, the registered broken-callback is eventually invoked.
C11_EventuallyBroken ==
  (phase = "failing" /\ _onConnectionBroken # NULL) ~> (brokenCount >= 1)

C11_Witness ==
  /\ phase = "failing"
  /\ last.op = "closed"
  /\ BrokenFired(last)
  /\ _maxRetries = MaxMaxRetries
  /\ Len(sockets) = MaxMaxRetries
  /\ Quiet

\* C12: whatever callbacks were registered and replaced, an event invokes at
\* most one callback of its type, and that one is the callback registered
\* last for the type, not one it replaced.
C12_SingleSlot ==
  /\ \A i \in DOMAIN last.calls : last.calls[i].id = registered[last.calls[i].cb]
  /\ \A name \in {"established", "broken", "message"} : NumCalls(last, name) <= 1

C12_Witness ==
  /\ last.op = "message"
  /\ superseded = {"established", "broken", "message"}
  /\ last.calls = << [cb |-> "message", id |-> registered.message, ws |-> last.sock,
                      msg |-> "ping"] >>

\* The handles that are connecting or open.
Active(ss) == {s \in DOMAIN ss : ss[s].readyState \in {"CONNECTING", "OPEN"}}

\* C13: in every reachable state at most one transport handle is connecting
\* or open, at most one retry timer is pending, and a pending timer never
\* coexists with a connecting or open handle.
C13_OneHandleOneTimer ==
  /\ Cardinality(Active(sockets)) <= 1
  /\ Cardinality(Pending(timers)) <= 1
  /\ Pending(timers) # {} => Active(sockets) = {}

\* C14: an opened, closed or message event delivered by a handle that an
\* earlier connect call created (connect has been called again since) leaves
\* the retry counter as it was, schedules no timer, opens no transport and
\* invokes no application callback.
C14_DiscardedHandleIsInert ==
  [][(last'.op \in {"opened", "closed", "message"} /\ last'.sock < connectSock)
       => /\ _currentRetry' = _currentRetry
          /\ NumOps(last', "setTimeout") = 0
          /\ NumOps(last', "open") = 0
          /\ last'.calls = <<>>]_vars

\* C15: the transport a firing retry timer opens is opened to the address
\* most recently passed to connect.
C15_RetryTargetsLastAddress ==
  last.op = "timer"
    => \A i \in DOMAIN last.ops : last.ops[i].op = "open" => last.ops[i].uri = target

\* C16: an opened event leaves the retry counter at 0 and no retry timer
\* pending, and invokes the registered established-callback exactly once,
\* with the handle that just opened.
C16_OpenedEstablishes ==
  last.op = "opened"
    => /\ _currentRetry = 0
       /\ Pending(timers) = {}
       /\ _onConnectionEstablished # NULL
            => last.calls = << [cb |-> "established", id |-> _onConnectionEstablished,
                                ws |-> last.sock, msg |-> ""] >>

\* C17: an error event changes no field of the object, no socket and no
\* timer, invokes no application callback and logs one error; a retry timer
\* is scheduled, or the broken-callback invoked, by closed events only.
C17_ErrorOnlyLogs ==
  [][/\ last'.op = "error"
          => /\ UNCHANGED <<objVars, envVars>>
             /\ last'.calls = <<>>
             /\ last'.ops = <<>>
             /\ last'.logs = << <<"error", "error">> >>
     /\ (NumOps(last', "setTimeout") > 0 \/ BrokenFired(last')) => last'.op = "closed"]_vars

C17_Witness ==
  /\ last.op = "error"
  /\ last.was = "OPEN"
  /\ _currentRetry = 0
  /\ Pending(timers) # {}
  /\ _onConnectionBroken # NULL

\* C18: after close() was called on a connecting or open connection, and
\* as long as connect is not called again, no event invokes the
\* broken-callback.
C18_CloseIsNotFailure ==
  closedLive => ~BrokenFired(last)

\* C19: in every reachable state 0 <= currentRetry <= maxRetries, so that no
\* attempt is opened as attempt number maxRetries + 1.
C19_RetryCounterInRange ==
  0 <= _currentRetry /\ _currentRetry <= _maxRetries

\* C20: with base 2, increment 2, jitter 2 and max 30, the delay given to the
\* timer is a whole, non-negative number of seconds for every retry count
\* from 0 up and every random draw; with retry count 0 it is 0, 1, 2 or 3
\* seconds.
C20_DelayNonNegative ==
  du # -1
    => /\ ddelay >= 0
       /\ ddelay % 1000 = 0
       /\ draw >= 0
       /\ dk = 0 => ddelay \in {0, 1000, 2000, 3000}

C20_Witness == du = 0 /\ dk = 0 /\ draw = 0 /\ ddelay = 0

====
